---------------------------- MODULE Spec2Model ----------------------------
(***************************************************************************)
(* A model of control.py: the flight-data loader (load_flight_data), the   *)
(* fly step (fly), the external command wrapper (simion_command) and the   *)
(* black-box objective (vmi_cost_function).                                *)
(*                                                                         *)
(* Text is modelled as a sequence of one-character strings, a file as a    *)
(* sequence of lines, a pandas DataFrame as a record of its index labels,  *)
(* its column labels and its rows.                                         *)
(***************************************************************************)
EXTENDS Integers, Sequences, FiniteSets, TLC

VARIABLES pc, evalNo, voltages, disk, rc, df_index, df_ic, df_res,
          penalty_grp, penalty, printed, ret, error, steps, removed,
          loaded_by

vars == <<pc, evalNo, voltages, disk, rc, df_index, df_ic, df_res,
          penalty_grp, penalty, printed, ret, error, steps, removed,
          loaded_by>>

(***************************************************************************)
(* Bounds of the model and constants of the program.                       *)
(***************************************************************************)
\* body rows of the artifacts the loader is run on (SpecLoad)
MaxRows == 4
\* rows of each of the two aligned tables the penalty is run on (SpecCost)
MaxIons == 4
\* components of a voltage vector (SpecCost)
MaxVolt == 3
\* body rows of the artifacts the simulator writes in an evaluation (Spec)
MaxSimRows == 4
\* evaluations in a row on the same output name (Spec)
MaxEvals == 2

\* np.loadtxt(..., skiprows=12, ...)
SkipRows == 12
\* penalty += 500
MonoPenalty == 500

(***************************************************************************)
(* Text.                                                                   *)
(***************************************************************************)
DQ == "\""
NL == "\n"
Comma == ","

\* c in s
Has(s, c) == \E i \in 1..Len(s) : s[i] = c

\* pat in line (substring)
Contains(line, pat) ==
    \E i \in 0..(Len(line) - Len(pat)) : SubSeq(line, i + 1, i + Len(pat)) = pat

\* s[0:-1]
DropLast(s) == SubSeq(s, 1, Len(s) - 1)

\* s[1:-1]
Strip1(s) == SubSeq(s, 2, Len(s) - 1)

\* s.split(c)
RECURSIVE Split(_, _)
Split(s, c) ==
    IF ~Has(s, c) THEN <<s>>
    ELSE LET k == CHOOSE i \in 1..Len(s) :
                      s[i] = c /\ \A j \in 1..(i - 1) : s[j] # c
         IN  <<SubSeq(s, 1, k - 1)>> \o Split(SubSeq(s, k + 1, Len(s)), c)

\* the text of the marker: "Ion N" with its quotes
Marker == <<DQ, "I", "o", "n", " ", "N", DQ>>

L_IonN == <<"I", "o", "n", " ", "N">>
L_KE == <<"K", "E">>
L_Y == <<"Y">>
L_index == <<"i", "n", "d", "e", "x">>

Digits == {"0", "1", "2", "3", "4", "5", "6", "7", "8", "9"}

DigitVal(c) ==
    CASE c = "0" -> 0 [] c = "1" -> 1 [] c = "2" -> 2 [] c = "3" -> 3
      [] c = "4" -> 4 [] c = "5" -> 5 [] c = "6" -> 6 [] c = "7" -> 7
      [] c = "8" -> 8 [] c = "9" -> 9

\* a token loadtxt converts (unsigned decimal integers are all the model writes)
IsNumeric(tok) == Len(tok) > 0 /\ \A i \in 1..Len(tok) : tok[i] \in Digits

RECURSIVE ToNumber(_)
ToNumber(tok) ==
    IF tok = <<>> THEN 0
    ELSE 10 * ToNumber(DropLast(tok)) + DigitVal(tok[Len(tok)])

(***************************************************************************)
(* load_flight_data: the header scan.                                      *)
(***************************************************************************)
\* One pass of the loop body of lines 83-86 on field idx.  Line 85 stores
\* idx[0:-1] in df_index[i]; line 86 then stores idx[1:-1], computed from
\* idx (the loop variable), over it.
HeaderField(idx) ==
    LET after85 == IF Has(idx, NL) THEN DropLast(idx) ELSE idx
        after86 == Strip1(idx)
    IN  after86

\* lines 82-86
ParseHeader(line) ==
    LET f == Split(line, Comma)
    IN  [i \in 1..Len(f) |-> HeaderField(f[i])]

\* lines 78-87: the labels of the first line holding the marker, [] if none
RECURSIVE ScanHeader(_)
ScanHeader(lines) ==
    IF lines = <<>> THEN <<>>
    ELSE IF Contains(Head(lines), Marker) THEN ParseHeader(Head(lines))
    ELSE ScanHeader(Tail(lines))

(***************************************************************************)
(* load_flight_data: the numeric body and the two tables.                  *)
(***************************************************************************)
NoFrame == [index |-> <<>>, columns |-> <<>>, rows |-> <<>>]
NoError == [kind |-> "", at |-> ""]
Raise(kind, at) == [kind |-> kind, at |-> at]

\* One body line as loadtxt splits it: the terminator dropped, then split
\* at the delimiter.
Tokens(line) == Split(IF Has(line, NL) THEN DropLast(line) ELSE line, Comma)

\* np.loadtxt(path, skiprows=12, delimiter=','): the lines after the first
\* SkipRows ones, each converted to a row of numbers.  ok is FALSE where a
\* token is not a number or the rows differ in length (ValueError).  With the
\* default ndmin the result is squeezed: no row gives an empty 1-d array,
\* one row a 1-d array of its values.
LoadTxt(lines) ==
    LET body == SubSeq(lines, SkipRows + 1, Len(lines))
        toks == [i \in 1..Len(body) |-> Tokens(body[i])]
        good == /\ \A i \in 1..Len(toks) :
                       \A j \in 1..Len(toks[i]) : IsNumeric(toks[i][j])
                /\ \A i \in 1..Len(toks) : Len(toks[i]) = Len(toks[1])
        rows == [i \in 1..Len(toks) |->
                    [j \in 1..Len(toks[i]) |-> ToNumber(toks[i][j])]]
    IN  IF ~good THEN [ok |-> FALSE, ndim |-> 0, data |-> <<>>]
        ELSE IF Len(rows) = 0 THEN [ok |-> TRUE, ndim |-> 1, data |-> <<>>]
        ELSE IF Len(rows) = 1 THEN [ok |-> TRUE, ndim |-> 1, data |-> rows[1]]
        ELSE [ok |-> TRUE, ndim |-> 2, data |-> rows]

\* pd.DataFrame(arr, columns=cols): a 1-d array is one column; the number of
\* labels must be the number of columns (ValueError otherwise).
DataFrame(arr, cols) ==
    LET vals == IF arr.ndim = 1
                THEN [i \in 1..Len(arr.data) |-> <<arr.data[i]>>]
                ELSE arr.data
        width == IF arr.ndim = 1 THEN 1 ELSE Len(arr.data[1])
    IN  [ok |-> width = Len(cols),
         df |-> [index |-> [i \in 1..Len(vals) |-> i - 1],
                 columns |-> cols,
                 rows |-> vals]]

\* s[start::2]
Stride(s, start) ==
    [k \in 1..((Len(s) - start + 1) \div 2) |-> s[start + 2 * (k - 1) + 1]]

\* a slice that ignores where it starts: df[1::2] taken as df[::2]
StepSliceFromZero(df, start) ==
    [index |-> Stride(df.index, 0), columns |-> df.columns,
     rows |-> Stride(df.rows, 0)]

\* df[start::2]: the rows keep their index labels
StepSlice(df, start) ==
    [index |-> Stride(df.index, start), columns |-> df.columns,
     rows |-> Stride(df.rows, start)]

\* df.reset_index(): the old index becomes the first column, named index;
\* the new index is 0..n-1
ResetIndex(df) ==
    [index |-> [i \in 1..Len(df.rows) |-> i - 1],
     columns |-> <<L_index>> \o df.columns,
     rows |-> [i \in 1..Len(df.rows) |-> <<df.index[i]>> \o df.rows[i]]]

\* load_flight_data(output_filename) on the file f at that path
LoadFlightData(f) ==
    IF ~f.exists
    THEN [err |-> Raise("FileNotFoundError", "open"), labels |-> <<>>,
          ic |-> NoFrame, res |-> NoFrame]
    ELSE LET labels == ScanHeader(f.lines)
             arr == LoadTxt(f.lines)
             made == DataFrame(arr, labels)
         IN  IF ~arr.ok
             THEN [err |-> Raise("ValueError", "loadtxt"), labels |-> labels,
                   ic |-> NoFrame, res |-> NoFrame]
             ELSE IF ~made.ok
             THEN [err |-> Raise("ValueError", "DataFrame"), labels |-> labels,
                   ic |-> NoFrame, res |-> NoFrame]
             ELSE [err |-> NoError, labels |-> labels,
                   ic |-> ResetIndex(StepSlice(made.df, 0)),
                   res |-> ResetIndex(StepSlice(made.df, 1))]

(***************************************************************************)
(* vmi_cost_function: the penalty.  A value is a number or NaN.            *)
(***************************************************************************)
Num(v) == [nan |-> FALSE, val |-> v]
NaN == [nan |-> TRUE, val |-> 0]
Add(p, q) == IF p.nan \/ q.nan THEN NaN ELSE Num(p.val + q.val)

SeqMax(s) == CHOOSE x \in {s[i] : i \in 1..Len(s)} : \A j \in 1..Len(s) : s[j] <= x
SeqMin(s) == CHOOSE x \in {s[i] : i \in 1..Len(s)} : \A j \in 1..Len(s) : x <= s[j]

HasCol(df, label) == \E j \in 1..Len(df.columns) : df.columns[j] = label

\* df[label], a column known to be there
Column(df, label) ==
    LET j == CHOOSE c \in 1..Len(df.columns) : df.columns[c] = label
    IN  [i \in 1..Len(df.rows) |-> df.rows[i][j]]

\* Series.unique(): the values in order of first appearance
RECURSIVE Unique(_)
Unique(s) ==
    IF s = <<>> THEN <<>>
    ELSE LET u == Unique(DropLast(s))
             x == s[Len(s)]
         IN  IF \E i \in 1..Len(u) : u[i] = x THEN u ELSE Append(u, x)

\* the elements of s at the positions where keep is TRUE
RECURSIVE Filter(_, _)
Filter(s, keep) ==
    IF s = <<>> THEN <<>>
    ELSE LET rest == Filter(DropLast(s), DropLast(keep))
         IN  IF keep[Len(s)] THEN Append(rest, s[Len(s)]) ELSE rest

\* df.loc[mask] can align a boolean Series with index mindex to df: every
\* index label of df is a label of the mask (IndexingError otherwise)
Alignable(df, mindex) ==
    \A i \in 1..Len(df.index) : \E k \in 1..Len(mindex) : mindex[k] = df.index[i]

\* the mask taken at the index labels of df
AlignMask(df, mindex, mvals) ==
    [i \in 1..Len(df.index) |->
        mvals[CHOOSE k \in 1..Len(mindex) : mindex[k] = df.index[i]]]

\* lines 115-116 for one energy, with no squaring of the spread
SpreadNotSquared(ic, res, energy) ==
    LET ke == Column(ic, L_KE)
        mask == [i \in 1..Len(ke) |-> ke[i] = energy]
        y_pos == Filter(Column(res, L_Y), AlignMask(res, ic.index, mask))
    IN  IF y_pos = <<>> THEN NaN
        ELSE Num(SeqMax(y_pos) - SeqMin(y_pos))

\* lines 115-116 for one energy: y_pos = df_res.loc[df_ic['KE'] == energy]['Y']
\* and (y_pos.max() - y_pos.min())**2, NaN for an empty selection
GroupSpread(ic, res, energy) ==
    LET ke == Column(ic, L_KE)
        mask == [i \in 1..Len(ke) |-> ke[i] = energy]
        y_pos == Filter(Column(res, L_Y), AlignMask(res, ic.index, mask))
    IN  IF y_pos = <<>> THEN NaN
        ELSE Num((SeqMax(y_pos) - SeqMin(y_pos)) * (SeqMax(y_pos) - SeqMin(y_pos)))

\* lines 114-116: the loop over initial_energies, from accumulator acc
RECURSIVE GroupLoop(_, _, _, _)
GroupLoop(ic, res, energies, acc) ==
    IF energies = <<>> THEN acc
    ELSE GroupLoop(ic, res, Tail(energies),
                   Add(acc, GroupSpread(ic, res, Head(energies))))

\* line 119 with >= for >
RiseOrEqual(v, i) == v[i + 1] >= v[i]

\* line 119: voltages[i+1] > voltages[i], i counted from 1
Rise(v, i) == v[i + 1] > v[i]

\* lines 118-120: the loop over range(len(voltages) - 1), from position i
RECURSIVE MonoLoop(_, _, _)
MonoLoop(v, i, acc) ==
    IF i > Len(v) - 1 THEN acc
    ELSE MonoLoop(v, i + 1, IF Rise(v, i) THEN Add(acc, Num(MonoPenalty)) ELSE acc)

\* lines 112-120: err names the exception that ends the computation, grp is
\* penalty after the first loop, total after the second
Cost(ic, res, v) ==
    IF ~HasCol(ic, L_KE)
    THEN [err |-> Raise("KeyError", "KE"), grp |-> Num(0), total |-> Num(0)]
    ELSE LET energies == Unique(Column(ic, L_KE))
         IN  IF energies # <<>> /\ ~Alignable(res, ic.index)
             THEN [err |-> Raise("IndexingError", "loc"),
                   grp |-> Num(0), total |-> Num(0)]
             ELSE IF energies # <<>> /\ ~HasCol(res, L_Y)
             THEN [err |-> Raise("KeyError", "Y"),
                   grp |-> Num(0), total |-> Num(0)]
             ELSE LET grp == GroupLoop(ic, res, energies, Num(0))
                  IN  [err |-> NoError, grp |-> grp,
                       total |-> MonoLoop(v, 1, grp)]

(***************************************************************************)
(* The results artifact as the simulator writes it: SkipRows lines before  *)
(* the numeric rows, the header line the last of them.  fields and body    *)
(* record what was written (the program reads lines only); by is the       *)
(* evaluation whose fly step wrote the file, 0 before the first one.       *)
(***************************************************************************)
NoFile == [exists |-> FALSE, by |-> 0, fields |-> <<>>, body |-> <<>>,
           lines |-> <<>>]

Filler == <<"#", NL>>

DigitChar(n) ==
    CASE n = 0 -> "0" [] n = 1 -> "1" [] n = 2 -> "2" [] n = 3 -> "3"
      [] n = 4 -> "4" [] n = 5 -> "5" [] n = 6 -> "6" [] n = 7 -> "7"
      [] n = 8 -> "8" [] n = 9 -> "9"

\* the texts of s joined by commas
RECURSIVE Join(_)
Join(s) ==
    IF s = <<>> THEN <<>>
    ELSE IF Len(s) = 1 THEN s[1]
    ELSE s[1] \o <<Comma>> \o Join(Tail(s))

\* each field in one layer of double quotes, the line terminated
HeaderLine(fields) ==
    Join([i \in 1..Len(fields) |-> <<DQ>> \o fields[i] \o <<DQ>>]) \o <<NL>>

RowLine(row) == Join([j \in 1..Len(row) |-> <<DigitChar(row[j])>>]) \o <<NL>>

\* fields = <<>>: a file with no header line
Artifact(by, fields, body) ==
    [exists |-> TRUE, by |-> by, fields |-> fields, body |-> body,
     lines |-> [i \in 1..SkipRows |->
                   IF i = SkipRows /\ fields # <<>>
                   THEN HeaderLine(fields) ELSE Filler]
               \o [i \in 1..Len(body) |-> RowLine(body[i])]]

SeqsUpTo(S, n) == UNION {[1..k -> S] : k \in 0..n}

FieldLists == {<<>>, <<L_IonN, L_KE, L_Y>>, <<L_KE, L_Y, L_IonN>>}
RowValues == {<<k, y, 1>> : k \in {1, 2}, y \in {1, 2, 4}}
SimRowValues == {<<1, 1, 1>>, <<1, 4, 1>>}

LoadFiles ==
    {Artifact(1, f, b) : f \in FieldLists, b \in SeqsUpTo(RowValues, MaxRows)}
SimFiles(by) ==
    {Artifact(by, f, b) : f \in FieldLists, b \in SeqsUpTo(SimRowValues, MaxSimRows)}

Volts == {3000, 3200, 3500}
AllVolts == UNION {[1..k -> Volts] : k \in 2..MaxVolt}
FewVolts == {<<3000, 100>>, <<3000, 3500, 3200>>}

\* a pair of aligned tables as load_flight_data returns them, from the
\* initial energies ke and the final coordinates y of the same ions
TableIc(ke) ==
    [index |-> [i \in 1..Len(ke) |-> i - 1],
     columns |-> <<L_index, L_IonN, L_KE, L_Y>>,
     rows |-> [i \in 1..Len(ke) |-> <<2 * (i - 1), i, ke[i], 3>>]]
TableRes(y) ==
    [index |-> [i \in 1..Len(y) |-> i - 1],
     columns |-> <<L_index, L_IonN, L_KE, L_Y>>,
     rows |-> [i \in 1..Len(y) |-> <<2 * (i - 1) + 1, i, 1, y[i]>>]]

AllTables ==
    UNION {[ke : [1..n -> {1, 2}], y : [1..n -> {1, 2, 4}]] : n \in 0..MaxIons}
FewTables ==
    {[ke |-> <<>>, y |-> <<>>], [ke |-> <<1, 1>>, y |-> <<1, 2>>],
     [ke |-> <<1, 1, 2, 2>>, y |-> <<1, 1, 2, 4>>]}

(***************************************************************************)
(* The state machine: the optimizer calls vmi_cost_function, whose steps   *)
(* run one after the other.                                                *)
(***************************************************************************)
NoRc == [fastadj |-> 0, fly |-> 0, cleanup |-> 0]

\* the locals of a call before its first step
Fresh ==
    /\ rc = NoRc
    /\ df_index = <<>>
    /\ df_ic = NoFrame
    /\ df_res = NoFrame
    /\ penalty_grp = Num(0)
    /\ penalty = Num(0)
    /\ printed = <<>>
    /\ ret = <<>>
    /\ error = NoError
    /\ steps = <<>>
    /\ removed = FALSE
    /\ loaded_by = <<>>

Ran(step) == \E i \in 1..Len(steps) : steps[i] = step

\* an exception leaves the call: nothing else of it runs
Abort(e) ==
    /\ pc' = "aborted"
    /\ error' = e

\* simion_command(command) when the process exits with code: exits of any
\* code are returned by subprocess.call and dropped, nothing is raised
SimionCommandRaises(code) == FALSE

\* subprocess.check_call in place of subprocess.call
CheckedCallRaises(code) == code # 0

\* line 107, subprocess.call(['/bin/bash', '-c', 'rm *.tmp']): the exit code
\* is dropped
CleanupRaises(code) == FALSE

\* minimize(...) calls vmi_cost_function(voltages, ...); after an abort, the
\* script is run again on the files the last run left
Call ==
    /\ pc \in {"idle", "done", "aborted"}
    /\ evalNo < MaxEvals
    /\ evalNo' = evalNo + 1
    /\ voltages' \in FewVolts
    /\ pc' = "fastadj"
    /\ rc' = NoRc
    /\ df_index' = <<>>
    /\ df_ic' = NoFrame
    /\ df_res' = NoFrame
    /\ penalty_grp' = Num(0)
    /\ penalty' = Num(0)
    /\ printed' = <<>>
    /\ ret' = <<>>
    /\ error' = NoError
    /\ steps' = <<>>
    /\ removed' = FALSE
    /\ loaded_by' = <<>>
    /\ UNCHANGED disk

\* line 102
FastAdjust ==
    /\ pc = "fastadj"
    /\ \E code \in {0, 1} :
          /\ rc' = [rc EXCEPT !.fastadj = code]
          /\ IF SimionCommandRaises(code)
             THEN Abort(Raise("CalledProcessError", "fastadj"))
             ELSE pc' = "fly_rm" /\ UNCHANGED error
    /\ steps' = Append(steps, "fastadj")
    /\ UNCHANGED <<evalNo, voltages, disk, df_index, df_ic, df_res,
                   penalty_grp, penalty, printed, ret, removed, loaded_by>>

\* fly with lines 68-69 left out
FlyKeepOld ==
    /\ pc = "fly_rm"
    /\ pc' = "fly_sim"
    /\ steps' = Append(steps, "rm")
    /\ UNCHANGED <<evalNo, voltages, disk, rc, df_index, df_ic, df_res,
                   penalty_grp, penalty, printed, ret, error, removed,
                   loaded_by>>

\* lines 68-69: os.remove of the old artifact, which may raise OSError
FlyRemoveOld ==
    /\ pc = "fly_rm"
    /\ steps' = Append(steps, "rm")
    /\ \/ /\ ~disk.exists
          /\ pc' = "fly_sim"
          /\ UNCHANGED <<disk, error, removed>>
       \/ /\ disk.exists
          /\ disk' = NoFile
          /\ removed' = TRUE
          /\ pc' = "fly_sim"
          /\ UNCHANGED error
       \/ /\ disk.exists
          /\ Abort(Raise("OSError", "remove"))
          /\ UNCHANGED <<disk, removed>>
    /\ UNCHANGED <<evalNo, voltages, rc, df_index, df_ic, df_res,
                   penalty_grp, penalty, printed, ret, loaded_by>>

\* line 72 run again while the simulator fails
FlySimulateRetry ==
    /\ pc = "fly_sim"
    /\ Len(steps) < 4
    /\ \E code \in {0, 1} :
          /\ rc' = [rc EXCEPT !.fly = code]
          /\ pc' = IF code # 0 THEN "fly_sim" ELSE "load"
    /\ \/ UNCHANGED disk
       \/ disk' \in SimFiles(evalNo)
    /\ steps' = Append(steps, "fly")
    /\ UNCHANGED <<evalNo, voltages, df_index, df_ic, df_res,
                   penalty_grp, penalty, printed, ret, error, removed,
                   loaded_by>>

\* line 72: the simulator runs, writes the artifact or not, and exits with
\* a code
FlySimulate ==
    /\ pc = "fly_sim"
    /\ \E code \in {0, 1} :
          /\ rc' = [rc EXCEPT !.fly = code]
          /\ IF SimionCommandRaises(code)
             THEN Abort(Raise("CalledProcessError", "fly"))
             ELSE pc' = "load" /\ UNCHANGED error
    /\ \/ UNCHANGED disk
       \/ disk' \in SimFiles(evalNo)
    /\ steps' = Append(steps, "fly")
    /\ UNCHANGED <<evalNo, voltages, df_index, df_ic, df_res,
                   penalty_grp, penalty, printed, ret, removed, loaded_by>>

\* line 106, load_flight_data(data_filename)
Load ==
    /\ pc = "load"
    /\ LET r == LoadFlightData(disk)
       IN  /\ df_index' = r.labels
           /\ df_ic' = r.ic
           /\ df_res' = r.res
           /\ IF r.err # NoError
              THEN Abort(r.err) /\ UNCHANGED loaded_by
              ELSE /\ pc' = "cleanup"
                   /\ loaded_by' = <<disk.by>>
                   /\ UNCHANGED error
    /\ steps' = Append(steps, "load")
    /\ UNCHANGED <<evalNo, voltages, disk, rc, penalty_grp, penalty, printed,
                   ret, removed>>

\* line 107
Cleanup ==
    /\ pc = "cleanup"
    /\ \E code \in {0, 1} :
          /\ rc' = [rc EXCEPT !.cleanup = code]
          /\ IF CleanupRaises(code)
             THEN Abort(Raise("CalledProcessError", "cleanup"))
             ELSE pc' = "penalty" /\ UNCHANGED error
    /\ steps' = Append(steps, "cleanup")
    /\ UNCHANGED <<evalNo, voltages, disk, df_index, df_ic, df_res,
                   penalty_grp, penalty, printed, ret, removed, loaded_by>>

\* lines 112-120
ComputePenalty ==
    /\ pc = "penalty"
    /\ LET c == Cost(df_ic, df_res, voltages)
       IN  IF c.err # NoError
           THEN Abort(c.err) /\ UNCHANGED <<penalty_grp, penalty>>
           ELSE /\ penalty_grp' = c.grp
                /\ penalty' = c.total
                /\ pc' = "report"
                /\ UNCHANGED error
    /\ steps' = Append(steps, "penalty")
    /\ UNCHANGED <<evalNo, voltages, disk, rc, df_index, df_ic, df_res,
                   printed, ret, removed, loaded_by>>

\* lines 123-124: print, then return
Report ==
    /\ pc = "report"
    /\ printed' = Append(printed, penalty)
    /\ ret' = <<penalty>>
    /\ pc' = "done"
    /\ steps' = steps \o <<"print", "return">>
    /\ UNCHANGED <<evalNo, voltages, disk, rc, df_index, df_ic, df_res,
                   penalty_grp, penalty, error, removed, loaded_by>>

\* The optimization run: the artifact of an earlier run may be on disk.
Init ==
    /\ pc = "idle"
    /\ evalNo = 0
    /\ voltages = <<>>
    /\ disk \in {NoFile} \cup SimFiles(0)
    /\ Fresh

Next ==
    \/ Call
    \/ FastAdjust
    \/ FlyRemoveOld
    \/ FlySimulate
    \/ Load
    \/ Cleanup
    \/ ComputePenalty
    \/ Report

Spec == Init /\ [][Next]_vars

\* load_flight_data alone, on every artifact of the bounds
InitLoad ==
    /\ pc = "load"
    /\ evalNo = 1
    /\ voltages = <<>>
    /\ disk \in LoadFiles
    /\ Fresh

NextLoad == Load

SpecLoad == InitLoad /\ [][NextLoad]_vars

\* The penalty alone, on pairs of aligned tables and voltage vectors: every
\* pair of tables of up to MaxIons ions with each vector of FewVolts, and
\* every vector of up to MaxVolt voltages with each pair of FewTables.
InitCost ==
    /\ pc = "penalty"
    /\ evalNo = 1
    /\ disk = NoFile
    /\ \E t \in AllTables \cup FewTables, v \in AllVolts \cup FewVolts :
          /\ t \in FewTables \/ v \in FewVolts
          /\ voltages = v
          /\ df_ic = TableIc(t.ke)
          /\ df_res = TableRes(t.y)
    /\ rc = NoRc
    /\ df_index = <<>>
    /\ penalty_grp = Num(0)
    /\ penalty = Num(0)
    /\ printed = <<>>
    /\ ret = <<>>
    /\ error = NoError
    /\ steps = <<>>
    /\ removed = FALSE
    /\ loaded_by = <<>>

NextCost ==
    \/ ComputePenalty
    \/ Report

SpecCost == InitCost /\ [][NextCost]_vars

(***************************************************************************)
(* The claims.                                                             *)
(***************************************************************************)
Loaded == Ran("load")
HasHeader == disk.fields # <<>>
Returned == pc \in {"report", "done"}

\* C1: for a header line of comma-separated fields, each in one layer of
\* double quotes and the last followed by a line terminator, the labels
\* load_flight_data computes are exactly the field texts, the last included.
C1_HeaderLabels ==
    (Loaded /\ HasHeader) => df_index = disk.fields

\* C2: on an artifact whose numeric body has an odd number of rows,
\* load_flight_data fails; it returns no pair of tables.
C2_OddRowsRejected ==
    (Loaded /\ Len(disk.body) % 2 = 1)
        => (pc = "aborted" /\ df_ic = NoFrame /\ df_res = NoFrame)

\* the initial and the final table hold n rows each, row i of the initial
\* table is body row 2i, row i of the final table is body row 2i+1, and both
\* are indexed 0..n-1
Paired(n) ==
    /\ pc = "cleanup"
    /\ Len(df_ic.rows) = n
    /\ Len(df_res.rows) = n
    /\ df_ic.index = [i \in 1..n |-> i - 1]
    /\ df_res.index = [i \in 1..n |-> i - 1]
    /\ \A i \in 0..(n - 1) :
          /\ Tail(df_ic.rows[i + 1]) = disk.body[2 * i + 1]
          /\ Tail(df_res.rows[i + 1]) = disk.body[2 * i + 2]

\* C3 as stated: on a well-formed artifact with 2n body rows, any n >= 0,
\* load_flight_data returns the two tables of n rows each, paired by parity.
C3_PairingFromZero ==
    (Loaded /\ HasHeader /\ Len(disk.body) % 2 = 0)
        => Paired(Len(disk.body) \div 2)

\* C3, amended: on a well-formed artifact with 2n body rows, n >= 1,
\* load_flight_data returns the two tables of n rows each, paired by parity
\* and indexed 0..n-1; on one with no body row it raises ValueError when it
\* builds the table.
C3_Pairing ==
    (Loaded /\ HasHeader /\ Len(disk.body) % 2 = 0)
        => IF Len(disk.body) >= 2
           THEN Paired(Len(disk.body) \div 2)
           ELSE pc = "aborted" /\ error = Raise("ValueError", "DataFrame")

C3_Witness ==
    /\ Loaded
    /\ HasHeader
    /\ Len(disk.body) = 4
    /\ disk.body[1] # disk.body[2]
    /\ disk.body[3] # disk.body[4]
    /\ pc = "cleanup"
    /\ Len(df_ic.rows) = 2

SetMax(S) == CHOOSE x \in S : \A y \in S : y <= x
SetMin(S) == CHOOSE x \in S : \A y \in S : x <= y

\* the final Y values of the rows whose same-position initial row has KE = e
GroupYs(e) ==
    {Column(df_res, L_Y)[i] :
        i \in {j \in 1..Len(df_res.rows) : Column(df_ic, L_KE)[j] = e}}

RECURSIVE SumSquaredSpreads(_)
SumSquaredSpreads(keys) ==
    IF keys = {} THEN 0
    ELSE LET e == CHOOSE k \in keys : TRUE
             d == SetMax(GroupYs(e)) - SetMin(GroupYs(e))
         IN  d * d + SumSquaredSpreads(keys \ {e})

InitialEnergies == {Column(df_ic, L_KE)[i] : i \in 1..Len(df_ic.rows)}

\* C4: for aligned tables the grouping part of the penalty is the sum, over
\* the distinct initial KE values, of (max Y - min Y)^2 over the final rows
\* whose same-position initial row has that KE; it is 0 when the final Y
\* values of every group are equal, and 4 for the groups {1,1} and {2,4}.
C4_GroupingTerm ==
    (Returned /\ Len(df_ic.rows) = Len(df_res.rows))
        => /\ penalty_grp = Num(SumSquaredSpreads(InitialEnergies))
           /\ (\A e \in InitialEnergies : Cardinality(GroupYs(e)) = 1)
                  => penalty_grp = Num(0)
           /\ (/\ Column(df_ic, L_KE) = <<1, 1, 2, 2>>
               /\ Column(df_res, L_Y) = <<1, 1, 2, 4>>)
                  => penalty_grp = Num(4)

C4_Witness ==
    /\ pc = "report"
    /\ Column(df_ic, L_KE) = <<1, 1, 2, 2>>
    /\ Column(df_res, L_Y) = <<1, 1, 2, 4>>
    /\ penalty_grp = Num(4)
    /\ penalty = Num(4)

Rises == {i \in 1..(Len(voltages) - 1) : voltages[i + 1] > voltages[i]}

\* C5: the penalty holds, on top of the grouping part, exactly 500 times the
\* number of adjacent positions where the later voltage is strictly greater,
\* over all components and whatever the flight data; 500 for
\* [3000, 3500, 3200].
C5_MonotonicityTerm ==
    Returned
        => /\ ~penalty.nan
           /\ penalty.val - penalty_grp.val = 500 * Cardinality(Rises)
           /\ voltages = <<3000, 3500, 3200>>
                  => penalty.val - penalty_grp.val = 500

C5_Witness ==
    /\ pc = "done"
    /\ voltages = <<3000, 3500, 3200>>
    /\ penalty_grp = Num(4)
    /\ penalty = Num(504)
    /\ ret = <<Num(504)>>

\* C6: when the fast-adjust step or the fly step fails (the simulator exits
\* non-zero), the evaluation aborts: no later step runs, no penalty is
\* returned.
C6_FailureAborts ==
    (rc.fastadj # 0 \/ rc.fly # 0) => (pc = "aborted" /\ ret = <<>>)

\* C7: on a file with no line holding the marker, load_flight_data fails in
\* the header scan with a format error; it does not go on to build tables.
C7_MissingMarkerFails ==
    (Loaded /\ disk.exists /\ ~HasHeader)
        => (pc = "aborted" /\ error = Raise("FormatError", "scan"))

\* C8: in every evaluation the old artifact is removed before the simulator
\* is invoked: after fly, the output path holds the artifact this
\* evaluation's run wrote or nothing, and the artifact load_flight_data
\* reads is never one of an earlier evaluation.
C8_NoStaleArtifact ==
    /\ Ran("fly")
          => /\ \E i, j \in 1..Len(steps) :
                    i < j /\ steps[i] = "rm" /\ steps[j] = "fly"
             /\ ~disk.exists \/ disk.by = evalNo
    /\ loaded_by # <<>> => loaded_by = <<evalNo>>

C8_Witness ==
    /\ evalNo = 2
    /\ removed
    /\ Ran("fly")
    /\ rc.fly # 0
    /\ ~disk.exists
    /\ pc = "aborted"
    /\ error = Raise("FileNotFoundError", "open")

\* C9: a failed scratch cleanup never aborts the evaluation: once the load
\* has succeeded, the evaluation goes on to the penalty, which is the value
\* the tables and the voltages give, and returns it.
C9_CleanupBestEffort ==
    rc.cleanup # 0
        => /\ pc \in {"penalty", "report", "done", "aborted"}
           /\ error.at # "cleanup"
           /\ pc = "aborted" => error = Cost(df_ic, df_res, voltages).err
           /\ Returned
                 => /\ Cost(df_ic, df_res, voltages).err = NoError
                    /\ penalty = Cost(df_ic, df_res, voltages).total
           /\ pc = "done" => ret = <<penalty>>

C9_Witness ==
    /\ rc.cleanup # 0
    /\ pc = "done"
    /\ Len(df_ic.rows) = 2
    /\ penalty_grp = Num(9)
    /\ ret = <<penalty>>

\* C10: a successful call has run each step once, in the order fast adjust,
\* removal of the old artifact, fly, load, cleanup, penalty, print, return:
\* no step twice, none left out, one simulation.
C10_StepOrder ==
    pc = "done"
        => steps = <<"fastadj", "rm", "fly", "load", "cleanup", "penalty",
                     "print", "return">>

C10_Witness ==
    /\ pc = "done"
    /\ evalNo = 2
    /\ removed
    /\ loaded_by = <<2>>
    /\ printed = <<penalty>>

=============================================================================
